---------------------------- MODULE Spec2Model ----------------------------
(***************************************************************************)
(* A model of the float-pod controller's orchestration layer.              *)
(*                                                                         *)
(*   Spec     the Task Registry    (src/components/TaskStore.py)           *)
(*   SpecES   the Event Registry   (src/components/EventStore.py)          *)
(*   SpecWifi the Network watchdog (src/drivers/Wifi.py)                   *)
(*   SpecNTP  the Time-sync watchdog (src/drivers/NTPTime.py)              *)
(*   SpecBreathe  the breathe effect (src/drivers/StatusLED.py)            *)
(*   SpecLED  the Status Indicator Engine (src/drivers/StatusLED.py)       *)
(*   SpecApp  the application's setup with its drivers (src/main.py)       *)
(*   SpecAppFair  the same under fair scheduling of the tasks              *)
(*   SpecAppTasks  setup's tasks and the Task Registry's bulk operations   *)
(*                                                                         *)
(* Python dictionaries are functions whose domain is the set of keys.  The *)
(* firmware runs on MicroPython, whose dict iteration order is not the     *)
(* insertion order; every loop over a dict is therefore modelled over an   *)
(* arbitrary permutation of the keys (CPython's insertion order is one).   *)
(***************************************************************************)
EXTENDS Integers, Sequences, FiniteSets, TLC

VARIABLES
    taskstore,  \* TaskStore._taskstore: key -> task handle | module sub-scope
    spawned,    \* spawned[i]: the (module, name) unit of work i was created for
    cancelled,  \* ids of the units of work whose cancel() has been called
    last,       \* the last call on the Task Registry and what it returned
    eventstore, \* EventStore._eventstore: module -> name -> (Event, subscribers)
    elast,      \* the last call on the Event Registry and what it returned
    wifi,       \* the WifiDriver, its watchdog task and the interface's link
    ntp,        \* the NTPTime driver, its watchdog task and the clock
    led,        \* the StatusLED driver, its PWM output and its effect tasks
    app         \* the FloatPodController: the shared status code, setup

tsvars == <<taskstore, spawned, cancelled, last>>
esvars == <<eventstore, elast>>
drvvars == <<wifi, ntp, led>>
appvars == <<app>>
vars ==
    <<taskstore, spawned, cancelled, last, eventstore, elast, wifi, ntp, led,
      app>>

---------------------------------------------------------------------------
(* Bounds and input sets                                                   *)

\* The strings used as task names and as module names.  "m" is in both on
\* purpose: the registry keeps module sub-scopes and global tasks in one
\* dictionary, so a task name can collide with a module name.
Keys == {"a", "m"}

Modules == {"m"}

\* Python's None, as the `module` argument (global scope).
NoModule == "None"

ModuleArgs == Modules \cup {NoModule}

\* How the caller passes coro_args / coro_kwargs to create_task.
\*   "given"    both are passed and fit the coroutine function
\*   "omitted"  left at their default, None (arguments the coroutine function
\*              rejects raise the same TypeError at the same place)
ArgKinds == {"given", "omitted"}

\* The number of units of work the model spawns.
MaxTasks == 3

\* The module names and event names given to the Event Registry ("m" is
\* both), and the plain callables subscribed to events:
\*   "s1"  returns normally
\*   "u"   calls unsubscribe_task for "s1" on the event it is subscribed to,
\*         then returns normally
\*   "x"   raises an exception
EModules == {"m"}
ENames == {"e", "m"}
Subscribers == {"s1", "u", "x"}

\* The longest subscriber list the model builds.
MaxSubs == 2

---------------------------------------------------------------------------
(* Dictionaries                                                            *)

EmptyDict == [k \in {} |-> 0]

Put(d, k, v) == [x \in DOMAIN d \cup {k} |-> IF x = k THEN v ELSE d[x]]

Del(d, k) == [x \in DOMAIN d \ {k} |-> d[x]]

\* Every order in which a loop may visit the keys S.
Perms(S) ==
    {p \in [1..Cardinality(S) -> S] : \A x \in S : \E i \in DOMAIN p : p[i] = x}

Range(s) == {s[i] : i \in DOMAIN s}

\* A value of the top-level dictionary: an asyncio.Task (by id) or the
\* dictionary of a module sub-scope (name -> task id).
TaskVal(i) == [kind |-> "task", id |-> i, sub |-> EmptyDict]
ScopeVal(d) == [kind |-> "dict", id |-> 0, sub |-> d]

NoExc == "none"

---------------------------------------------------------------------------
(* Task Registry: what each method computes                                *)

\* What a method did: the dictionary it leaves, the ids it called cancel()
\* on (in order), whether it spawned a unit of work, whether that unit was
\* stored, the value it returned and whether an exception reached the caller.
Outcome(ts, sent, spawn, stored, ret, raised) ==
    [ts |-> ts, sent |-> sent, spawn |-> spawn, stored |-> stored,
     ret |-> ret, raised |-> raised]

\* create_task, lines 49-51: a module that is not a key yet gets an empty
\* sub-scope.
EnsureScope(ts, module) ==
    IF module # NoModule /\ module \notin DOMAIN ts
    THEN Put(ts, module, ScopeVal(EmptyDict))
    ELSE ts

\* `self._taskstore[module] if module != None else self._taskstore`, for a
\* module that is a key.
View(ts, module) == IF module = NoModule THEN ScopeVal(ts) ELSE ts[module]

\* `ts[name] = task` on the dictionary View names.
Store(ts, module, name, v) ==
    IF module = NoModule
    THEN Put(ts, name, v)
    ELSE Put(ts, module, ScopeVal(Put(ts[module].sub, name, v)))

\* `del ts[name]` on the dictionary View names.
Remove(ts, module, name) ==
    IF module = NoModule
    THEN Del(ts, name)
    ELSE Put(ts, module, ScopeVal(Del(ts[module].sub, name)))

RefusesNever(exists, recreate) == FALSE

\* create_task, lines 56-62: an existing name is refused unless recreate.
Refuses(exists, recreate) == exists /\ ~recreate

\* create_task.  newid is the handle asyncio.create_task would return.  The
\* result is a set: when `module` names a global task, `name in ts` iterates
\* that task, which raises while the task is pending and answers False once
\* it has finished; the unit of work is then spawned before the assignment
\* `ts[name] = ...` fails.
CreateTask(ts0, newid, name, module, recreate, args) ==
    LET ts1 == EnsureScope(ts0, module)
        view == View(ts1, module)
    IN  IF view.kind # "dict"
        THEN {Outcome(ts1, <<>>, FALSE, FALSE, "RuntimeError", FALSE)}
             \cup (IF args = "given"
                   THEN {Outcome(ts1, <<>>, TRUE, FALSE, "TypeError", FALSE)}
                   ELSE {Outcome(ts1, <<>>, FALSE, FALSE, "TypeError", FALSE)})
        ELSE LET exists == name \in DOMAIN view.sub IN
             IF Refuses(exists, recreate)
             THEN {Outcome(ts1, <<>>, FALSE, FALSE, "RuntimeWarning", FALSE)}
             ELSE IF exists /\ view.sub[name].kind = "dict"
             THEN {Outcome(ts1, <<>>, FALSE, FALSE, "AttributeError", FALSE)}
             ELSE LET sent == IF exists THEN <<view.sub[name].id>> ELSE <<>> IN
                  IF args # "given"
                  THEN {Outcome(ts1, sent, FALSE, FALSE, "TypeError", FALSE)}
                  ELSE {Outcome(Store(ts1, module, name, TaskVal(newid)),
                                sent, TRUE, TRUE, "True", FALSE)}

\* The lookup of retrieve_task and cancel_task:
\* `self._taskstore[name] if module == None else self._taskstore[module][name]`.
\* exc is the exception the lookup raises, val the value it yields.
Lookup(ts, name, module) ==
    IF module = NoModule
    THEN IF name \in DOMAIN ts
         THEN [exc |-> NoExc, val |-> ts[name]]
         ELSE [exc |-> "KeyError", val |-> TaskVal(0)]
    ELSE IF module \notin DOMAIN ts
         THEN [exc |-> "KeyError", val |-> TaskVal(0)]
         ELSE IF ts[module].kind # "dict"
         THEN [exc |-> "TypeError", val |-> TaskVal(0)]
         ELSE IF name \notin DOMAIN ts[module].sub
         THEN [exc |-> "KeyError", val |-> TaskVal(0)]
         ELSE [exc |-> NoExc, val |-> ts[module].sub[name]]

\* Python's None as a returned value.
NoneVal == [kind |-> "none", id |-> 0, sub |-> EmptyDict]

\* retrieve_task: the value stored, or None when the lookup raises.
RetrieveTask(ts, name, module) ==
    LET r == Lookup(ts, name, module) IN
    IF r.exc = NoExc THEN r.val ELSE NoneVal

\* The body of cancel_task's try: the lookup, then .cancel() on what it
\* yields (a dict has no cancel).
CancelBody(ts, name, module) ==
    LET r == Lookup(ts, name, module) IN
    IF r.exc # NoExc THEN [exc |-> r.exc, sent |-> <<>>]
    ELSE IF r.val.kind = "dict" THEN [exc |-> "AttributeError", sent |-> <<>>]
    ELSE [exc |-> NoExc, sent |-> <<r.val.id>>]

CancelTaskAndForget(ts, name, module) ==
    LET r == CancelBody(ts, name, module) IN
    IF r.exc = NoExc
    THEN Outcome(Remove(ts, module, name), r.sent, FALSE, FALSE, "True", FALSE)
    ELSE Outcome(ts, r.sent, FALSE, FALSE, "False", FALSE)

\* cancel_task.
CancelTask(ts, name, module) ==
    LET r == CancelBody(ts, name, module) IN
    Outcome(ts, r.sent, FALSE, FALSE,
            IF r.exc = NoExc THEN "True" ELSE "False", FALSE)

\* The body of delete_task's try, after cancel_task: the exception raised by
\* `ts = self._taskstore[module] ...; del ts[name]`, if any.
DeleteExc(ts, name, module) ==
    IF module # NoModule /\ module \notin DOMAIN ts THEN "KeyError"
    ELSE IF View(ts, module).kind # "dict" THEN "TypeError"
    ELSE IF name \notin DOMAIN View(ts, module).sub THEN "KeyError"
    ELSE NoExc

DeleteTaskUncaught(ts, name, module) ==
    LET c == CancelTask(ts, name, module)
        e == DeleteExc(ts, name, module)
    IN  IF e = NoExc
        THEN Outcome(Remove(ts, module, name), c.sent, FALSE, FALSE, "True", FALSE)
        ELSE Outcome(ts, c.sent, FALSE, FALSE, e, TRUE)

\* delete_task.
DeleteTask(ts, name, module) ==
    LET c == CancelTask(ts, name, module)
        e == DeleteExc(ts, name, module)
    IN  IF e = NoExc
        THEN Outcome(Remove(ts, module, name), c.sent, FALSE, FALSE, "True", FALSE)
        ELSE Outcome(ts, c.sent, FALSE, FALSE, "False", FALSE)

\* retrieve_all_tasks, visiting the keys in `order`.  The recursive call
\* passes an argument the method does not take, so the first sub-scope met
\* raises TypeError, and the bare except turns that into None.
RECURSIVE RetrieveAllIter(_, _, _)
RetrieveAllIter(ts, order, l) ==
    IF order = <<>> THEN [exc |-> NoExc, names |-> l]
    ELSE IF ts[Head(order)].kind = "dict"
    THEN [exc |-> "TypeError", names |-> l]
    ELSE RetrieveAllIter(ts, Tail(order), Append(l, Head(order)))

\* retrieve_all_tasks: isnone says the method returned None.
RetrieveAllTasks(ts, order) ==
    LET r == RetrieveAllIter(ts, order, <<>>) IN
    IF r.exc = NoExc
    THEN [isnone |-> FALSE, names |-> r.names]
    ELSE [isnone |-> TRUE, names |-> <<>>]

\* The loop of cancel_all_tasks, visiting the keys in `order`: the same
\* recursive call, raising TypeError at the first sub-scope met.
RECURSIVE CancelAllIter(_, _, _)
CancelAllIter(ts, order, sent) ==
    IF order = <<>> THEN [exc |-> NoExc, sent |-> sent]
    ELSE IF ts[Head(order)].kind = "dict"
    THEN [exc |-> "TypeError", sent |-> sent]
    ELSE CancelAllIter(ts, Tail(order), Append(sent, ts[Head(order)].id))

CancelAllTasksUncaught(ts, order) ==
    LET r == CancelAllIter(ts, order, <<>>) IN
    Outcome(ts, r.sent, FALSE, FALSE,
            IF r.exc = NoExc THEN "True" ELSE r.exc, r.exc # NoExc)

\* cancel_all_tasks.
CancelAllTasks(ts, order) ==
    LET r == CancelAllIter(ts, order, <<>>) IN
    Outcome(ts, r.sent, FALSE, FALSE,
            IF r.exc = NoExc THEN "True" ELSE "False", FALSE)

\* The loop of delete_all_tasks, visiting the keys in `order`: the set of
\* ways it can end.  A sub-scope raises TypeError as above.  A task is
\* cancelled and its key deleted while the dictionary is being iterated:
\* CPython's iterator then raises RuntimeError at its next step, MicroPython's
\* has no such check and goes on.
RECURSIVE DeleteAllIter(_, _, _)
DeleteAllIter(ts, order, sent) ==
    IF order = <<>> THEN {[exc |-> NoExc, ts |-> ts, sent |-> sent]}
    ELSE IF ts[Head(order)].kind = "dict"
    THEN {[exc |-> "TypeError", ts |-> ts, sent |-> sent]}
    ELSE LET c == CancelTask(ts, Head(order), NoModule)
             ts2 == Del(ts, Head(order))
             sent2 == sent \o c.sent
         IN  {[exc |-> "RuntimeError", ts |-> ts2, sent |-> sent2]}
             \cup DeleteAllIter(ts2, Tail(order), sent2)

\* delete_all_tasks.
DeleteAllTasks(ts, order) ==
    {Outcome(r.ts, r.sent, FALSE, FALSE,
             IF r.exc = NoExc THEN "True" ELSE "False", FALSE)
        : r \in DeleteAllIter(ts, order, <<>>)}

---------------------------------------------------------------------------
(* Task Registry: the state machine                                        *)

\* The record of a call: the method, its arguments, what it returned, the
\* cancel() calls it made, the id it spawned (0: none) and whether the call
\* before it was cancel_all.
Call(op, name, module, recreate, args, o, newid) ==
    [op |-> op, name |-> name, module |-> module, recreate |-> recreate,
     args |-> args, ret |-> o.ret, raised |-> o.raised, sent |-> o.sent,
     spawn |-> IF o.spawn THEN newid ELSE 0, prev |-> (last.op = "cancel_all")]

\* The effect of a call on the registry's state.
Apply(op, name, module, recreate, args, o, newid) ==
    /\ taskstore' = o.ts
    /\ cancelled' = cancelled \cup Range(o.sent)
    /\ spawned' = IF o.spawn
                  THEN Append(spawned, [module |-> module, name |-> name])
                  ELSE spawned
    /\ last' = Call(op, name, module, recreate, args, o, newid)
    /\ UNCHANGED <<esvars, drvvars, appvars>>

TSInit ==
    /\ taskstore = EmptyDict
    /\ spawned = <<>>
    /\ cancelled = {}
    /\ last = [op |-> "init", name |-> "", module |-> NoModule,
               recreate |-> FALSE, args |-> "", ret |-> "", raised |-> FALSE,
               sent |-> <<>>, spawn |-> 0, prev |-> FALSE]

Create ==
    \E name \in Keys, module \in ModuleArgs, recreate \in BOOLEAN,
       args \in ArgKinds :
        LET newid == Len(spawned) + 1 IN
        \E o \in CreateTask(taskstore, newid, name, module, recreate, args) :
            /\ o.spawn => Len(spawned) < MaxTasks
            /\ Apply("create", name, module, recreate, args, o, newid)

Cancel ==
    \E name \in Keys, module \in ModuleArgs :
        Apply("cancel", name, module, FALSE, "",
              CancelTask(taskstore, name, module), 0)

Delete ==
    \E name \in Keys, module \in ModuleArgs :
        Apply("delete", name, module, FALSE, "",
              DeleteTask(taskstore, name, module), 0)

Retrieve ==
    \E name \in Keys, module \in ModuleArgs :
        Apply("get", name, module, FALSE, "",
              Outcome(taskstore, <<>>, FALSE, FALSE,
                      RetrieveTask(taskstore, name, module).kind, FALSE), 0)

CancelAll ==
    \E order \in Perms(DOMAIN taskstore) :
        Apply("cancel_all", "", NoModule, FALSE, "",
              CancelAllTasks(taskstore, order), 0)

DeleteAll ==
    \E order \in Perms(DOMAIN taskstore) :
        \E o \in DeleteAllTasks(taskstore, order) :
            Apply("delete_all", "", NoModule, FALSE, "", o, 0)

TSNext == Create \/ Retrieve \/ Cancel \/ Delete \/ CancelAll \/ DeleteAll

---------------------------------------------------------------------------
(* Task Registry: properties                                               *)

\* A task is registered under (module, name).
IsTask(ts, name, module) ==
    /\ Lookup(ts, name, module).exc = NoExc
    /\ Lookup(ts, name, module).val.kind = "task"

\* The lookup of (module, name) fails: the name is no key of the addressed
\* scope, or the module is no sub-scope of the registry.
Miss(ts, name, module) == Lookup(ts, name, module).exc # NoExc

\* The names of all registered tasks, global and in every sub-scope.
AllTaskNames(ts) ==
    {k \in DOMAIN ts : ts[k].kind = "task"}
    \cup UNION {DOMAIN ts[k].sub : k \in {x \in DOMAIN ts : ts[x].kind = "dict"}}

\* The ids of the units of work the registry references.
Referenced(ts) ==
    {ts[k].id : k \in {x \in DOMAIN ts : ts[x].kind = "task"}}
    \cup UNION {{ts[k].sub[n].id : n \in DOMAIN ts[k].sub}
                    : k \in {x \in DOMAIN ts : ts[x].kind = "dict"}}

\* The units of work spawned for (module, name) that no cancel() has reached.
Uncancelled(module, name) ==
    {i \in DOMAIN spawned :
        /\ spawned[i] = [module |-> module, name |-> name]
        /\ i \notin cancelled}

\* C1: when create(work, name, module) has returned True and the next call
\* is delete(name, module), list_all then returns a list (not None) that does
\* not contain name, whatever order it visits the keys in.
C1_CreateDeleteLeavesNoTrace ==
    [][(/\ last.op = "create" /\ last.ret = "True"
        /\ last'.op = "delete"
        /\ last'.name = last.name /\ last'.module = last.module)
       => \A order \in Perms(DOMAIN taskstore') :
             /\ ~RetrieveAllTasks(taskstore', order).isnone
             /\ last.name \notin Range(RetrieveAllTasks(taskstore', order).names)
      ]_vars

\* C2: create with recreate=False for a (module, name) that holds a task
\* returns the RuntimeWarning value, raises nothing, leaves the handle stored
\* under (module, name) and the whole registry as they were, calls no
\* cancel() and spawns nothing.
C2_RefusedCreateHasNoEffect ==
    [][(/\ last'.op = "create" /\ ~last'.recreate
        /\ IsTask(taskstore, last'.name, last'.module))
       => /\ last'.ret = "RuntimeWarning"
          /\ ~last'.raised
          /\ RetrieveTask(taskstore', last'.name, last'.module)
                = RetrieveTask(taskstore, last'.name, last'.module)
          /\ taskstore' = taskstore
          /\ last'.sent = <<>> /\ cancelled' = cancelled
          /\ last'.spawn = 0 /\ spawned' = spawned
      ]_vars

\* C2 witness: a create has just been refused for a task that is registered
\* in a module sub-scope and has not been cancelled.
C2_Witness ==
    /\ last.op = "create" /\ ~last.recreate /\ last.ret = "RuntimeWarning"
    /\ last.module # NoModule
    /\ IsTask(taskstore, last.name, last.module)
    /\ RetrieveTask(taskstore, last.name, last.module).id \notin cancelled

\* C3: create with recreate=True for a (module, name) that holds a task, with
\* the arguments supplied or omitted, leaves a new and different handle under
\* (module, name), and the call sent the old unit of work exactly one
\* cancel().
C3_RecreateReplacesHandle ==
    [][(/\ last'.op = "create" /\ last'.recreate
        /\ IsTask(taskstore, last'.name, last'.module))
       => /\ IsTask(taskstore', last'.name, last'.module)
          /\ RetrieveTask(taskstore', last'.name, last'.module).id
                # RetrieveTask(taskstore, last'.name, last'.module).id
          /\ last'.sent
                = <<RetrieveTask(taskstore, last'.name, last'.module).id>>
      ]_vars

\* C4: cancel_all and delete_all raise nothing to the caller, whatever the
\* registry holds; each returns True or False.
C4_BulkNeverRaises ==
    last.op \in {"cancel_all", "delete_all"}
        => ~last.raised /\ last.ret \in {"True", "False"}

\* C4 witness: delete_all has run right after cancel_all on a registry that
\* held a global task (which it cancelled) and a sub-scope holding a task.
C4_Witness ==
    /\ last.op = "delete_all" /\ last.prev
    /\ last.sent # <<>>
    /\ \E k \in DOMAIN taskstore :
          taskstore[k].kind = "dict" /\ DOMAIN taskstore[k].sub # {}

\* C5: after delete_all has returned, no scope of the registry holds a task.
C5_DeleteAllEmpties ==
    last.op = "delete_all" => AllTaskNames(taskstore) = {}

\* C6: list_all returns a list holding exactly the names of the registered
\* tasks, global ones and those of every sub-scope, in every state of the
\* registry and whatever order it visits the keys in.
C6_ListAllIsAllNames ==
    \A order \in Perms(DOMAIN taskstore) :
        /\ ~RetrieveAllTasks(taskstore, order).isnone
        /\ Range(RetrieveAllTasks(taskstore, order).names)
              = AllTaskNames(taskstore)

\* C7: cancel(name, module) of a registered task calls cancel() on that
\* task and on no other, returns True, and leaves the registry as it was:
\* get(name, module) returns the same handle.
C7_CancelKeepsEntry ==
    [][(/\ last'.op = "cancel"
        /\ IsTask(taskstore, last'.name, last'.module))
       => /\ last'.ret = "True" /\ ~last'.raised
          /\ last'.sent
                = <<RetrieveTask(taskstore, last'.name, last'.module).id>>
          /\ cancelled' = cancelled
                \cup {RetrieveTask(taskstore, last'.name, last'.module).id}
          /\ taskstore' = taskstore
          /\ RetrieveTask(taskstore', last'.name, last'.module)
                = RetrieveTask(taskstore, last'.name, last'.module)
      ]_vars

\* C7 witness: a task has just been cancelled, it is still registered, and
\* another registered task has not been cancelled.
C7_Witness ==
    /\ last.op = "cancel" /\ last.ret = "True"
    /\ IsTask(taskstore, last.name, last.module)
    /\ last.sent = <<RetrieveTask(taskstore, last.name, last.module).id>>
    /\ Referenced(taskstore) \ cancelled # {}

C9_OneLivePerName ==
    \A module \in ModuleArgs, name \in Keys :
        Cardinality(Uncancelled(module, name)) <= 1

\* C31: every unit of work whose handle a call removes from the registry
\* (delete, delete_all, or the replacement made by a recreate) has been sent
\* a cancel() by the end of that call; since `cancelled` only grows, every
\* unit whose entry was ever removed has then been cancelled.  This covers
\* delete with no module and the name of a module sub-scope.
C31_RemovedIsCancelled ==
    [][(Referenced(taskstore) \ Referenced(taskstore')) \subseteq cancelled'
      ]_vars

\* C32: a create with recreate=True for a (module, name) that holds a task
\* and that returns an error value instead of True has called no cancel(),
\* and the handle registered under (module, name) is the one that was there
\* before the call.
C32_FailedRecreateKeepsTask ==
    [][(/\ last'.op = "create" /\ last'.recreate
        /\ IsTask(taskstore, last'.name, last'.module)
        /\ last'.ret # "True")
       => /\ last'.sent = <<>>
          /\ cancelled' = cancelled
          /\ RetrieveTask(taskstore', last'.name, last'.module)
                = RetrieveTask(taskstore, last'.name, last'.module)
      ]_vars

---------------------------------------------------------------------------
(* Event Registry: what each method computes                               *)

\* The tuple (asyncio.Event(), []) stored for an event: whether the Event is
\* set, and the list of subscribers.
EventVal(isset, subs) == [isset |-> isset, subs |-> subs]

\* What a method did: the dictionary it leaves, the subscribers it invoked
\* (in order), the value it returned or the exception it raised.
EOutcome(es, invoked, ret, raised) ==
    [es |-> es, invoked |-> invoked, ret |-> ret, raised |-> raised]

\* An event is stored under (module, name).
HasEvent(es, module, name) ==
    module \in DOMAIN es /\ name \in DOMAIN es[module]

\* `self._eventstore[module][name] = v`.
EPut(es, module, name, v) == Put(es, module, Put(es[module], name, v))

CreateEventOverwrites(es, module, name) ==
    LET es1 == IF module \notin DOMAIN es
               THEN Put(es, module, EmptyDict) ELSE es
    IN  EOutcome(EPut(es1, module, name, EventVal(FALSE, <<>>)),
                 <<>>, "True", FALSE)

\* create_event.
CreateEvent(es, module, name) ==
    LET es1 == IF module \notin DOMAIN es
               THEN Put(es, module, EmptyDict) ELSE es
    IN  IF name \in DOMAIN es1[module]
        THEN EOutcome(es1, <<>>, "False", FALSE)
        ELSE EOutcome(EPut(es1, module, name, EventVal(FALSE, <<>>)),
                      <<>>, "True", FALSE)

\* retrieve_event: "Event" for the handle stored, "None" when there is none.
RetrieveEvent(es, module, name) ==
    EOutcome(es, <<>>,
             IF HasEvent(es, module, name) THEN "Event" ELSE "None", FALSE)

\* set_event.  The lookup is `self._eventstore[name][0]`: the event's name
\* is used as the module key and 0 as the event key.  A name that is no
\* module key raises KeyError; one that is yields that module's dictionary,
\* whose keys are event names, never 0: KeyError again.  Event.set() is
\* never reached.
SetEvent(es, module, name) == EOutcome(es, <<>>, "False", FALSE)

\* clear_event.
ClearEvent(es, module, name) ==
    IF HasEvent(es, module, name)
    THEN EOutcome(EPut(es, module, name,
                       EventVal(FALSE, es[module][name].subs)),
                  <<>>, "True", FALSE)
    ELSE EOutcome(es, <<>>, "False", FALSE)

\* delete_event.
DeleteEvent(es, module, name) ==
    IF HasEvent(es, module, name)
    THEN EOutcome(Put(es, module, Del(es[module], name)), <<>>, "True", FALSE)
    ELSE EOutcome(es, <<>>, "False", FALSE)

\* subscribe_task.
SubscribeTask(es, module, name, task) ==
    IF HasEvent(es, module, name)
    THEN EOutcome(EPut(es, module, name,
                       EventVal(es[module][name].isset,
                                Append(es[module][name].subs, task))),
                  <<>>, "True", FALSE)
    ELSE EOutcome(es, <<>>, "False", FALSE)

\* list.remove(x): the list without the first x.
RECURSIVE ListRemove(_, _)
ListRemove(l, x) ==
    IF l = <<>> THEN <<>>
    ELSE IF Head(l) = x THEN Tail(l)
    ELSE <<Head(l)>> \o ListRemove(Tail(l), x)

\* unsubscribe_task.
UnsubscribeTask(es, module, name, task) ==
    IF HasEvent(es, module, name) /\ task \in Range(es[module][name].subs)
    THEN EOutcome(EPut(es, module, name,
                       EventVal(es[module][name].isset,
                                ListRemove(es[module][name].subs, task))),
                  <<>>, "True", FALSE)
    ELSE EOutcome(es, <<>>, "False", FALSE)

\* The argument of execute_subscribers: the asyncio.Event of (module, name),
\* as retrieve_event returns it, or a string.
EventHandle(module, name) == [kind |-> "Event", module |-> module, name |-> name]
EventString(k) == [kind |-> "str", module |-> "", name |-> k]

\* execute_subscribers, line 194: `self._eventstore[event][1]`.  The keys of
\* _eventstore are module names: an Event object is none of them (KeyError),
\* and a module name yields that module's dictionary, whose keys are event
\* names, never 1 (KeyError).
SubscribersOf(es, event) == [exc |-> "KeyError", subs |-> <<>>]

\* execute_subscribers, lines 194-199, on the list the lookup yields: the
\* first subscriber is called; if it returns, isinstance(task(), _async())
\* raises TypeError, its second argument being a coroutine object, not a
\* type.  Either way the loop ends at its first element.
RunSubscribers(subs) ==
    IF subs = <<>> THEN [exc |-> NoExc, invoked |-> <<>>]
    ELSE IF Head(subs) = "x"
    THEN [exc |-> "SubscriberError", invoked |-> <<Head(subs)>>]
    ELSE [exc |-> "TypeError", invoked |-> <<Head(subs)>>]

\* execute_subscribers: the except clause re-raises.
ExecuteSubscribers(es, event) ==
    LET l == SubscribersOf(es, event) IN
    IF l.exc # NoExc THEN EOutcome(es, <<>>, l.exc, TRUE)
    ELSE LET r == RunSubscribers(l.subs) IN
         IF r.exc # NoExc THEN EOutcome(es, r.invoked, r.exc, TRUE)
         ELSE EOutcome(es, r.invoked, "True", FALSE)

---------------------------------------------------------------------------
(* Event Registry: the state machine                                       *)

\* The record of a call: the method, the event and subscriber it was given,
\* what it returned or raised, the subscribers it invoked, and whether the
\* call before it was a delete of the same event that returned True.
ECall(op, event, task, o) ==
    [op |-> op, event |-> event, task |-> task, ret |-> o.ret,
     raised |-> o.raised, invoked |-> o.invoked,
     again |-> (elast.op = "delete" /\ elast.ret = "True"
                   /\ elast.event = event)]

\* The effect of a call on the registry's state.
EApply(op, event, task, o) ==
    /\ eventstore' = o.es
    /\ elast' = ECall(op, event, task, o)
    /\ UNCHANGED <<tsvars, drvvars, appvars>>

ESInit ==
    /\ eventstore = EmptyDict
    /\ elast = [op |-> "init", event |-> EventString(""), task |-> "",
                ret |-> "", raised |-> FALSE, invoked |-> <<>>,
                again |-> FALSE]

ECreate ==
    \E module \in EModules, name \in ENames :
        EApply("create", EventHandle(module, name), "",
               CreateEvent(eventstore, module, name))

ERetrieve ==
    \E module \in EModules, name \in ENames :
        EApply("get", EventHandle(module, name), "",
               RetrieveEvent(eventstore, module, name))

ESet ==
    \E module \in EModules, name \in ENames :
        EApply("set", EventHandle(module, name), "",
               SetEvent(eventstore, module, name))

EClear ==
    \E module \in EModules, name \in ENames :
        EApply("clear", EventHandle(module, name), "",
               ClearEvent(eventstore, module, name))

EDelete ==
    \E module \in EModules, name \in ENames :
        EApply("delete", EventHandle(module, name), "",
               DeleteEvent(eventstore, module, name))

ESubscribe ==
    \E module \in EModules, name \in ENames, task \in Subscribers :
        /\ HasEvent(eventstore, module, name)
              => Len(eventstore[module][name].subs) < MaxSubs
        /\ EApply("subscribe", EventHandle(module, name), task,
                  SubscribeTask(eventstore, module, name, task))

EUnsubscribe ==
    \E module \in EModules, name \in ENames, task \in Subscribers :
        EApply("unsubscribe", EventHandle(module, name), task,
               UnsubscribeTask(eventstore, module, name, task))

\* execute_subscribers(event), called with the Event of an existing event
\* or with a string.
EExecute ==
    \E event \in {EventHandle(m, n) : m \in EModules, n \in ENames}
                 \cup {EventString(k) : k \in EModules \cup ENames} :
        /\ event.kind = "Event" => HasEvent(eventstore, event.module, event.name)
        /\ EApply("fire", event, "", ExecuteSubscribers(eventstore, event))

ESNext ==
    \/ ECreate \/ ERetrieve \/ ESet \/ EClear \/ EDelete
    \/ ESubscribe \/ EUnsubscribe \/ EExecute

---------------------------------------------------------------------------
(* Event Registry: properties                                              *)

\* C10: when set has just been called for an existing event whose
\* subscriber list a1..an (n >= 1) holds plain callables, and
\* fire_subscribers is called next for that event, that call invokes
\* a1, ..., an once each in this order and returns True.
C10_FireInvokesAllInOrder ==
    [][(/\ elast.op = "set"
        /\ elast'.op = "fire"
        /\ elast'.event = elast.event
        /\ HasEvent(eventstore, elast.event.module, elast.event.name)
        /\ eventstore[elast.event.module][elast.event.name].subs # <<>>)
       => /\ elast'.invoked
                = eventstore[elast.event.module][elast.event.name].subs
          /\ elast'.ret = "True"
          /\ ~elast'.raised
      ]_vars

\* The subscriber list of the event an Event handle stands for.
SubsOf(es, event) == es[event.module][event.name].subs

\* The call about to be recorded is `op` on an event that exists.
OnExisting(op) ==
    /\ elast'.op = op
    /\ elast'.event.kind = "Event"
    /\ HasEvent(eventstore, elast'.event.module, elast'.event.name)

\* C11: a fire_subscribers pass over a list that holds "u" together with
\* "s1" (so that "u", once invoked, unsubscribes another subscriber of the
\* event) invokes every subscriber that was in the list when the pass began,
\* once each, in the list's order.
C11_UnsubscribeDuringPass ==
    [][(/\ OnExisting("fire")
        /\ {"u", "s1"} \subseteq Range(SubsOf(eventstore, elast'.event))
        /\ "x" \notin Range(SubsOf(eventstore, elast'.event)))
       => elast'.invoked = SubsOf(eventstore, elast'.event)
      ]_vars

\* The place of the first failing subscriber in a list (0: none fails).
FirstFailing(subs) ==
    IF "x" \in Range(subs)
    THEN CHOOSE k \in DOMAIN subs :
            subs[k] = "x" /\ \A j \in 1..(k - 1) : subs[j] # "x"
    ELSE 0

\* C12: a fire_subscribers call whose k-th subscriber fails raises and
\* invokes none of the subscribers k+1..n; a call none of whose subscribers
\* fails returns True and raises nothing.
C12_FailureAbortsElseTrue ==
    [][OnExisting("fire")
       => LET subs == SubsOf(eventstore, elast'.event)
              k == FirstFailing(subs)
          IN  IF k > 0
              THEN elast'.raised /\ Len(elast'.invoked) <= k
              ELSE elast'.ret = "True" /\ ~elast'.raised
      ]_vars

\* C13: set and clear of an existing event return True and leave the event
\* set, respectively cleared; they change no subscriber list and no other
\* event.
C13_SetAndClear ==
    [][(OnExisting("set") \/ OnExisting("clear"))
       => LET m == elast'.event.module
              n == elast'.event.name
          IN  /\ elast'.ret = "True"
              /\ eventstore'
                    = EPut(eventstore, m, n,
                           EventVal(elast'.op = "set", eventstore[m][n].subs))
      ]_vars

\* C14: delete of an existing event returns True and get then returns None;
\* create of an event that does not exist (in particular one just deleted)
\* returns True and stores a cleared event with no subscriber; create of an
\* event that exists returns False and changes nothing.
C14_DeleteThenCreateIsFresh ==
    [][LET m == elast'.event.module
           n == elast'.event.name
       IN  /\ OnExisting("delete")
              => /\ elast'.ret = "True"
                 /\ ~HasEvent(eventstore', m, n)
                 /\ RetrieveEvent(eventstore', m, n).ret = "None"
           /\ (elast'.op = "create" /\ ~HasEvent(eventstore, m, n))
              => /\ elast'.ret = "True"
                 /\ HasEvent(eventstore', m, n)
                 /\ eventstore'[m][n] = EventVal(FALSE, <<>>)
           /\ OnExisting("create")
              => /\ elast'.ret = "False"
                 /\ eventstore' = eventstore
      ]_vars

\* C14 witness: an event has just been created again right after its delete,
\* next to another event that kept its subscribers.
C14_Witness ==
    /\ elast.op = "create" /\ elast.ret = "True" /\ elast.again
    /\ SubsOf(eventstore, elast.event) = <<>>
    /\ \E n \in ENames \ {elast.event.name} :
          /\ HasEvent(eventstore, elast.event.module, n)
          /\ eventstore[elast.event.module][n].subs # <<>>

---------------------------------------------------------------------------
(* The Network watchdog: src/drivers/Wifi.py, station mode                 *)
(*                                                                         *)
(* Time is counted in ticks of 100 ms, the period of the watchdog's        *)
(* sleep_ms(100).  The watchdog is one asyncio task: the code between two  *)
(* awaits runs without interruption, so each step below is one resumption  *)
(* of the task carried to its next await.  The link of the interface is    *)
(* the environment's: it changes between steps.                            *)

\* The driver's configuration, in ticks (timeout, retry_interval and
\* backoff_interval) and in attempts (max_failures), scaled down.
WTimeout == 2
WRetryInterval == 2
WBackoffInterval == 3
WMaxFailures == 2

\* The fields of wifi:
\*   pc             the await the watchdog task is suspended at:
\*                    "poll"        sleep_ms(100) of _wifi_watchdog
\*                    "connecting"  sleep_ms(100) of _do_connect's loop
\*                    "retrywait"   sleep(retry_interval) of connect
\*                    "backoff"     sleep(backoff_interval) of connect
\*   timer          ticks spent in the wait, or since _do_connect's start
\*   failures       the argument of the innermost connect() frame
\*   connected      interface.isconnected()
\*   was_connected  WifiDriver._was_connected
\*   status_code    WifiDriver._status_code
\*   nfailed        attempts of the current cycle that have timed out
\*   seen           the status codes that successful attempts started from
\*   act            the kind of the last step
\*   issued         the last step called interface.connect()
\*   ret            what the last call connect() of the watchdog loop
\*                  returned ("nocall": none has returned yet)
\*   retconn        isconnected() at the time it returned
WifiStart ==
    [pc |-> "poll", timer |-> 0, failures |-> 0, connected |-> FALSE,
     was_connected |-> FALSE, status_code |-> 0, nfailed |-> 0,
     seen |-> {}, act |-> "init", issued |-> FALSE, ret |-> "nocall",
     retconn |-> FALSE]

SoftResetCheckSkipped(w) == w

\* _wifi_watchdog, lines 141-145: the link is up and the flag is not.
SoftResetCheck(w) ==
    IF w.connected /\ ~w.was_connected
    THEN [w EXCEPT !.was_connected = TRUE, !.status_code = 1]
    ELSE w

\* _wifi_watchdog, lines 141-148: the end of a pass of the loop, after
\* connect() has returned or was not called.
EndOfPass(w) ==
    [SoftResetCheck(w) EXCEPT !.pc = "poll", !.timer = 0, !.failures = 0]

\* connect, lines 188-199 and 213: the innermost frame connect(failures)
\* returns value; a frame that called connect(failures + 1) at line 199
\* drops what it gets and falls off its end, so the call made by the
\* watchdog loop returns value only if it is the innermost frame itself.
Returned(w, value) ==
    [w EXCEPT !.ret = IF w.failures = 0 THEN value ELSE "None",
              !.retconn = w.connected]

SucceedWithoutStatus(w) ==
    EndOfPass(Returned([w EXCEPT !.was_connected = TRUE,
                                 !.seen = @ \cup {w.status_code}],
                       "True"))

\* _do_connect, lines 172-177, then connect's return True (line 189): every
\* enclosing connect() frame returns without waiting.
Succeed(w) ==
    EndOfPass(Returned([w EXCEPT !.was_connected = TRUE, !.status_code = 1,
                                 !.seen = @ \cup {w.status_code}],
                       "True"))

\* connect, line 193.
BudgetLeft(w) == w.failures < WMaxFailures

\* connect, lines 191-213: _do_connect has raised.
Fail(w) ==
    IF BudgetLeft(w)
    THEN [w EXCEPT !.pc = "retrywait", !.timer = 0, !.nfailed = @ + 1]
    ELSE [w EXCEPT !.pc = "backoff", !.timer = 0, !.nfailed = @ + 1,
                   !.status_code = 2]

\* _do_connect, lines 164-170: the loop's test and the test after it, with
\* timer ticks gone since start.
LoopCheck(w) ==
    IF ~w.connected /\ w.timer < WTimeout
    THEN [w EXCEPT !.pc = "connecting"]
    ELSE IF w.timer >= WTimeout THEN Fail(w) ELSE Succeed(w)

\* _do_connect, lines 161-162, entered from connect(failures), line 188.
Connect(w, failures) ==
    LoopCheck([w EXCEPT !.failures = failures, !.timer = 0,
                        !.issued = TRUE])

WatchdogPassIfNeverConnected(w) ==
    IF ~w.connected /\ ~w.was_connected
    THEN Connect([w EXCEPT !.nfailed = 0], 0)
    ELSE EndOfPass(w)

\* _wifi_watchdog, lines 134-148: one pass of the loop.
WatchdogPass(w) ==
    IF ~w.connected
    THEN Connect([w EXCEPT !.nfailed = 0], 0)
    ELSE EndOfPass(w)

BackoffElapsedAtOnce(w) == TRUE

\* connect, line 212: sleep(backoff_interval) is over at the next tick.
BackoffElapsed(w) == w.timer + 1 >= WBackoffInterval

\* connect, line 198: sleep(retry_interval) is over at the next tick.
RetryElapsed(w) == w.timer + 1 >= WRetryInterval

\* The wait the task is in goes on for another tick.
Sleeping(w) ==
    \/ w.pc = "retrywait" /\ ~RetryElapsed(w)
    \/ w.pc = "backoff" /\ ~BackoffElapsed(w)

\* The task is resumed at the await it is suspended at.
Resume(w) ==
    CASE w.pc = "poll" -> WatchdogPass(w)
      [] w.pc = "connecting" -> LoopCheck([w EXCEPT !.timer = @ + 1])
      [] w.pc = "retrywait" -> Connect(w, w.failures + 1)
      [] w.pc = "backoff" -> EndOfPass(Returned(w, "False"))

\* WifiDriver.__init__, lines 45-92: the watchdog task is created and has
\* not run yet.
WifiInit == wifi = WifiStart

\* A tick passes inside sleep(retry_interval) or sleep(backoff_interval).
WTick ==
    /\ Sleeping(wifi)
    /\ wifi' = [wifi EXCEPT !.timer = @ + 1, !.act = "tick",
                            !.issued = FALSE]
    /\ UNCHANGED <<tsvars, esvars, ntp, led, app>>

\* The watchdog task is resumed and runs to its next await.
WWake ==
    /\ ~Sleeping(wifi)
    /\ wifi' = [Resume([wifi EXCEPT !.issued = FALSE]) EXCEPT !.act = "wake"]
    /\ UNCHANGED <<tsvars, esvars, ntp, led, app>>

\* The interface gains or loses its association.
WLink ==
    /\ wifi' = [wifi EXCEPT !.connected = ~@, !.act = "link",
                            !.issued = FALSE]
    /\ UNCHANGED <<tsvars, esvars, ntp, led, app>>

WifiNext == WTick \/ WWake \/ WLink

\* C15: with attempts that all time out, the watchdog enters the backoff,
\* setting the status code to 2, at the failed attempt that makes the count
\* of the cycle's failed attempts equal to max_failures: not at an earlier
\* one and not at a later one.
C15_BackoffAfterMaxFailures ==
    [][(wifi'.act = "wake" /\ wifi'.nfailed = wifi.nfailed + 1)
       => ((wifi'.pc = "backoff" /\ wifi'.status_code = 2)
              <=> wifi'.nfailed = WMaxFailures)
      ]_vars

\* C16: during the backoff no connection attempt is issued and the wait is
\* not left before backoff_interval has elapsed; an attempt issued from the
\* poll loop, the first after a backoff among them, has failure count 0;
\* every retry comes after a wait of retry_interval and raises the count by
\* one; and the backoff is entered only with max_failures retries used.
C16_BackoffThenFreshCycle ==
    [][/\ wifi.pc = "backoff" => ~wifi'.issued
       /\ (wifi.pc = "backoff" /\ wifi.timer + 1 < WBackoffInterval)
          => wifi'.pc = "backoff"
       /\ (wifi.pc = "poll" /\ wifi'.issued)
          => (wifi'.failures = 0 /\ wifi'.nfailed = 0)
       /\ (wifi.pc = "retrywait" /\ wifi'.issued)
          => /\ wifi.timer + 1 >= WRetryInterval
             /\ wifi'.pc = "connecting"
                => wifi'.failures = wifi.failures + 1
       /\ (wifi.pc # "backoff" /\ wifi'.pc = "backoff")
          => wifi.failures = WMaxFailures
      ]_vars

\* C16 witness: the last retry of a cycle that follows a backoff (the status
\* code is still the 2 of the exhaustion before it) is under way.
C16_Witness ==
    /\ wifi.pc = "connecting" /\ wifi.status_code = 2
    /\ wifi.failures = WMaxFailures

\* C17: when a connection attempt finds the interface associated before the
\* timeout has elapsed, the status code becomes 1, the was-connected flag
\* true, and the watchdog is back in its poll loop: no retry wait and no
\* backoff wait follows.
C17_AssociationEndsCycle ==
    [][(/\ wifi'.act = "wake"
        /\ wifi.connected
        /\ \/ wifi.pc = "connecting" /\ wifi.timer + 1 < WTimeout
           \/ wifi.pc = "retrywait")
       => /\ wifi'.status_code = 1
          /\ wifi'.was_connected
          /\ wifi'.pc = "poll" /\ wifi'.timer = 0
      ]_vars

\* C17 witness: attempts have succeeded from each of the status codes 0, 1
\* and 2, the last of them just now.
C17_Witness ==
    /\ wifi.seen = {0, 1, 2}
    /\ wifi.act = "wake" /\ wifi.pc = "poll" /\ wifi.status_code = 1

\* C18: the poll loop wakes at every tick, and a wake that finds the
\* interface not associated after it had been connected issues a connection
\* attempt of a new cycle.
C18_DisconnectionReconnects ==
    [][/\ wifi.pc = "poll" => wifi'.act # "tick"
       /\ (/\ wifi.pc = "poll" /\ wifi'.act = "wake"
           /\ wifi.was_connected /\ ~wifi.connected)
          => (wifi'.pc = "connecting" /\ wifi'.issued /\ wifi'.failures = 0)
      ]_vars

\* C18 witness: the watchdog, having been connected by an attempt, has just
\* issued the first attempt of a new cycle.
C18_Witness ==
    /\ wifi.pc = "connecting" /\ wifi.issued /\ wifi.act = "wake"
    /\ wifi.failures = 0 /\ wifi.was_connected /\ wifi.status_code = 1
    /\ wifi.seen # {}

\* C19: a poll that finds the interface associated issues no connection
\* attempt and stays in the poll loop; if the was-connected flag was false
\* it is now true and the status code is 1.
C19_SoftResetResync ==
    [][(wifi.pc = "poll" /\ wifi'.act = "wake" /\ wifi.connected)
       => /\ ~wifi'.issued /\ wifi'.pc = "poll"
          /\ wifi'.was_connected
          /\ ~wifi.was_connected => wifi'.status_code = 1
      ]_vars

\* C19 witness: the flag and the status code were set by a poll, no attempt
\* having been issued since the start.
C19_Witness ==
    /\ wifi.pc = "poll" /\ wifi.act = "wake"
    /\ wifi.was_connected /\ wifi.status_code = 1
    /\ wifi.seen = {} /\ wifi.nfailed = 0

\* C26: the status code is 2 exactly while the watchdog is in the backoff
\* wait.
C26_StatusTwoIffBackoff ==
    wifi.status_code = 2 <=> wifi.pc = "backoff"

\* C30: the call connect() made by the watchdog loop returns True if the
\* interface is connected when it returns and False otherwise.
C30_ConnectReturnsBool ==
    wifi.ret # "nocall"
    => wifi.ret = (IF wifi.retconn THEN "True" ELSE "False")

---------------------------------------------------------------------------
(* The Time-sync watchdog: src/drivers/NTPTime.py                          *)
(*                                                                         *)
(* Time is counted in ticks of 100 ms as above; now is time.ticks_ms().    *)
(* ntptime.settime() blocks the task (and the event loop) until the server *)
(* has answered or the request has failed.                                 *)

\* The driver's configuration, in ticks (sync_interval, the retry sleep of
\* line 117) and in attempts (max_retries), scaled down; the longest time
\* settime() blocks, and the time the clock is followed to.
NSyncInterval == 3
NRetrySleep == 2
NMaxRetries == 3
NSettimeTicks == 1
NMaxTime == 14

\* What an attempt meets: settime() returns and the rest of the try block
\* completes ("ok"), settime() raises ("fail"), or settime() returns and the
\* computation of next_sync raises, config.json having no usable
\* time_offset ("late").
NOutcomes == {"ok", "fail", "late"}

\* The fields of ntp:
\*   pc            the await the watchdog task is suspended at:
\*                   "poll"       sleep_ms(100) of _run
\*                   "retrywait"  sleep(5) of sync_time
\*   timer         ticks spent in sleep(5)
\*   failures      the argument of the innermost sync_time() frame
\*   now           time.ticks_ms()
\*   last_sync, initial_sync, status_code   the driver's fields
\*   nfailed       attempts of the current cycle that have failed
\*   okat          the time the last successful attempt ended at (-1: none)
\*   result        how the last cycle ended, "running" while one is under way
\*   before        last_sync as it was when the current cycle began
\*   endat         the time the last cycle ended at (-1: none has)
\*   srcok         settime() has returned at least once
\*   act           the kind of the last step: "tick", "poll" (a pass of
\*                 _run without sync_time) or "attempt"
NTPStart ==
    [pc |-> "poll", timer |-> 0, failures |-> 0, now |-> 0, last_sync |-> 0,
     initial_sync |-> FALSE, status_code |-> 0, nfailed |-> 0, okat |-> -1,
     result |-> "none", before |-> 0, endat |-> -1, srcok |-> FALSE,
     act |-> "init"]

\* _run, lines 67-69.
SyncDue(n) == ~n.initial_sync \/ n.now - n.last_sync > NSyncInterval

\* _run, line 76, reached when sync_time has returned through all frames.
BackToRun(n, result) ==
    [n EXCEPT !.pc = "poll", !.timer = 0, !.failures = 0, !.result = result]

\* sync_time has returned to _run: the cycle is over.
EndCycle(n, result) == [BackToRun(n, result) EXCEPT !.endat = n.now]

SettimeDoneWithoutTimestamp(n) ==
    [n EXCEPT !.status_code = 1, !.srcok = TRUE]

\* sync_time, lines 99-100: settime() has returned.
SettimeDone(n) ==
    [n EXCEPT !.last_sync = n.now, !.status_code = 1, !.srcok = TRUE]

SyncFailedKeepsTimestamp(n) ==
    IF n.failures < NMaxRetries - 1
    THEN [n EXCEPT !.pc = "retrywait", !.timer = 0, !.nfailed = @ + 1]
    ELSE EndCycle([n EXCEPT !.status_code = 2, !.nfailed = @ + 1],
                  "exhausted")

\* sync_time, lines 112-126: the try block has raised.
SyncFailed(n) ==
    IF n.failures < NMaxRetries - 1
    THEN [n EXCEPT !.pc = "retrywait", !.timer = 0, !.nfailed = @ + 1]
    ELSE EndCycle([n EXCEPT !.last_sync = n.now, !.status_code = 2,
                            !.nfailed = @ + 1], "exhausted")

\* sync_time(failures), lines 92-126, settime() taking d ticks.
SyncTime(n, failures, outcome, d) ==
    LET n1 == [n EXCEPT !.failures = failures, !.initial_sync = TRUE,
                        !.now = @ + d, !.act = "attempt"]
    IN  CASE outcome = "ok" ->
               EndCycle([SettimeDone(n1) EXCEPT !.okat = n1.now], "ok")
          [] outcome = "late" -> SyncFailed(SettimeDone(n1))
          [] outcome = "fail" -> SyncFailed(n1)

\* _run, lines 65-76: one pass of the loop.
RunPass(n, outcome, d) ==
    IF SyncDue(n)
    THEN SyncTime([n EXCEPT !.nfailed = 0, !.result = "running",
                            !.before = n.last_sync],
                  0, outcome, d)
    ELSE [BackToRun(n, n.result) EXCEPT !.act = "poll"]

\* NTPTime.__init__, lines 36-44: the watchdog task is created and has not
\* run yet.
NTPInit == ntp = NTPStart

\* A tick passes inside sleep(5).
NTick ==
    /\ ntp.pc = "retrywait" /\ ntp.timer + 1 < NRetrySleep
    /\ ntp.now + 1 <= NMaxTime
    /\ ntp' = [ntp EXCEPT !.timer = @ + 1, !.now = @ + 1, !.act = "tick"]
    /\ UNCHANGED <<tsvars, esvars, wifi, led, app>>

\* The sleep_ms(100) of _run is over: the loop makes a pass.
NPoll ==
    /\ ntp.pc = "poll"
    /\ \E outcome \in NOutcomes, d \in 0..NSettimeTicks :
          /\ ntp.now + 1 + d <= NMaxTime
          /\ ntp' = RunPass([ntp EXCEPT !.now = @ + 1], outcome, d)
    /\ UNCHANGED <<tsvars, esvars, wifi, led, app>>

\* The sleep(5) of sync_time is over: the next attempt is made.
NRetry ==
    /\ ntp.pc = "retrywait" /\ ntp.timer + 1 >= NRetrySleep
    /\ \E outcome \in NOutcomes, d \in 0..NSettimeTicks :
          /\ ntp.now + 1 + d <= NMaxTime
          /\ ntp' = SyncTime([ntp EXCEPT !.now = @ + 1],
                             ntp.failures + 1, outcome, d)
    /\ UNCHANGED <<tsvars, esvars, wifi, led, app>>

NTPNext == NTick \/ NPoll \/ NRetry

\* C20: a sync cycle that ended with a successful attempt after at least
\* one failed attempt has made no more than max_retries attempts, and it
\* left the status code 1 and the last-success timestamp at the time the
\* successful attempt ended.
C20_RetrySucceeds ==
    (ntp.result = "ok" /\ ntp.nfailed >= 1)
    => /\ ntp.status_code = 1
       /\ ntp.last_sync = ntp.okat
       /\ ntp.nfailed + 1 <= NMaxRetries
       /\ ntp.pc = "poll"

\* C20 witness: a cycle has ended with a success at its last permitted
\* attempt, later than the start of the clock.
C20_Witness ==
    /\ ntp.result = "ok" /\ ntp.nfailed = NMaxRetries - 1
    /\ ntp.okat > 0 /\ ntp.last_sync = ntp.okat

\* C21: a sync cycle all of whose attempts failed in settime() ends with
\* status code 2 and with the last-success timestamp as it was when the
\* cycle began.
C21_ExhaustionKeepsLastSync ==
    (ntp.result = "exhausted" /\ ~ntp.srcok)
    => (ntp.status_code = 2 /\ ntp.last_sync = ntp.before)

\* C22: a sync cycle that ends exhausted has made exactly max_retries
\* attempts and leaves status code 2; every retry comes after the whole
\* retry sleep; and after an exhausted cycle no attempt is made before a
\* full sync interval has gone by since the cycle ended.
C22_ExhaustedCycle ==
    [][/\ ntp'.nfailed <= NMaxRetries
       /\ (ntp.result = "running" /\ ntp'.result = "exhausted")
          => (ntp'.nfailed = NMaxRetries /\ ntp'.status_code = 2)
       /\ (ntp.result = "running" /\ ntp'.act = "attempt")
          => (ntp.pc = "retrywait" /\ ntp.timer + 1 >= NRetrySleep)
       /\ (ntp.result = "exhausted" /\ ntp'.act = "attempt"
              /\ ntp'.now > ntp.now)
          => (ntp.now + 1) - ntp.endat >= NSyncInterval
      ]_vars

\* C22 witness: with a time source that has never answered, a second cycle
\* has ended exhausted.
C22_Witness ==
    /\ ntp.result = "exhausted" /\ ntp.act = "attempt" /\ ~ntp.srcok
    /\ ntp.before > 0 /\ ntp.nfailed = NMaxRetries

\* C23: a pass of the background loop made while no synchronization has
\* ever succeeded, or more than the sync interval after the last successful
\* one, starts a sync cycle; the initial-sync flag never goes back to false
\* and becomes true only in a step in which a synchronization succeeds.
C23_PollStartsCycleUntilSuccess ==
    [][/\ (/\ ntp.pc = "poll" /\ ntp'.now > ntp.now
           /\ \/ ntp.okat = -1
              \/ (ntp.now + 1) - ntp.okat > NSyncInterval)
          => ntp'.act = "attempt"
       /\ ntp.initial_sync => ntp'.initial_sync
       /\ (~ntp.initial_sync /\ ntp'.initial_sync)
          => (ntp'.result = "ok" /\ ntp'.okat >= 0)
      ]_vars

---------------------------------------------------------------------------
(* The Status LED: src/drivers/StatusLED.py                                *)

\* The largest duty of the 10-bit PWM, and the step sizes breathe is run
\* with: the small ones, and two that reach across the whole range.
MaxDuty == 1023
MaxStep == 4
BreatheSteps == (1..MaxStep) \cup {MaxDuty, MaxDuty + MaxStep}

\* The fields of led:
\*   duty            the duty of the PWM, what pwm.duty() returns
\*   fade_direction  StatusLED.fade_direction
\*   breathing       a breathe task is running
\*   steps           the steps argument it runs with (1 while none runs)
\*   status_code     StatusLED._status_code, the code the engine saw last
\*   current_task    StatusLED._current_task: 0 for None, else the place of
\*                   the task in tasks
\*   tasks           the effect tasks created so far, oldest first: the
\*                   effect, its first argument, and whether cancel() has
\*                   been called on it
\*   observed        the codes the engine has seen, the one it started with
\*                   first
\*   active          the effects in force one after the other: "off", the
\*                   state the constructor leaves (duty 0, no task), first
LEDStart ==
    [duty |-> 0, fade_direction |-> 1, breathing |-> FALSE, steps |-> 1,
     status_code |-> 0, current_task |-> 0, tasks |-> <<>>,
     observed |-> <<0>>, active |-> <<"off">>]

BreatheUnclamped(l) ==
    LET dir == IF l.duty = 0 THEN 1
               ELSE IF l.duty = MaxDuty THEN -1 ELSE l.fade_direction
    IN  [l EXCEPT !.fade_direction = dir, !.duty = l.duty + dir * l.steps]

\* breathe, lines 119-141: one pass of the loop.
Breathe(l) ==
    LET dir == IF l.duty = 0 THEN 1
               ELSE IF l.duty = MaxDuty THEN -1 ELSE l.fade_direction
        new_duty == l.duty + dir * l.steps
    IN  [l EXCEPT !.fade_direction = dir,
                  !.duty = IF new_duty > MaxDuty THEN MaxDuty
                           ELSE IF new_duty < 0 THEN 0 ELSE new_duty]

\* StatusLED.__init__, lines 52-55.
LEDInit == led = LEDStart

\* set_duty while no effect runs.
BSetDuty ==
    /\ ~led.breathing
    /\ \E d \in 0..MaxDuty : led' = [led EXCEPT !.duty = d]
    /\ UNCHANGED <<tsvars, esvars, wifi, ntp, app>>

\* A breathe task is started.
BStart ==
    /\ ~led.breathing
    /\ \E st \in BreatheSteps :
          led' = [led EXCEPT !.breathing = TRUE, !.steps = st]
    /\ UNCHANGED <<tsvars, esvars, wifi, ntp, app>>

\* The breathe task is resumed after its sleep_ms(10).
BTick ==
    /\ led.breathing
    /\ led' = Breathe(led)
    /\ UNCHANGED <<tsvars, esvars, wifi, ntp, app>>

\* The breathe task is cancelled.
BCancel ==
    /\ led.breathing
    /\ led' = [led EXCEPT !.breathing = FALSE, !.steps = 1]
    /\ UNCHANGED <<tsvars, esvars, wifi, ntp, app>>

BreatheNext == BSetDuty \/ BStart \/ BTick \/ BCancel

\* C27: every pass of breathe leaves the duty within 0..1023; it moves the
\* duty by one step in the direction of the pass, stopping at the extreme;
\* the direction of a pass is upward when the pass starts at duty 0,
\* downward when it starts at 1023, and as stored otherwise; and a breathe
\* task that is never cancelled reaches both extremes again and again.
C27_BreatheOscillates ==
    /\ [][(led.breathing /\ led'.breathing)
          => /\ led'.duty \in 0..MaxDuty
             /\ led'.fade_direction
                   = (IF led.duty = 0 THEN 1
                      ELSE IF led.duty = MaxDuty THEN -1
                      ELSE led.fade_direction)
             /\ \/ led'.duty = led.duty + led'.fade_direction * led.steps
                \/ /\ led'.duty = MaxDuty
                   /\ led.duty + led.steps > MaxDuty
                   /\ led'.fade_direction = 1
                \/ /\ led'.duty = 0
                   /\ led.duty - led.steps < 0
                   /\ led'.fade_direction = -1
         ]_vars
    /\ (<>[](led.breathing))
       => ([]<>(led.duty = 0) /\ []<>(led.duty = MaxDuty))

\* C27 witness: a pass with a step that does not divide 1023 has stopped at
\* the upper extreme, short of a whole step.
C27_Witness ==
    /\ led.breathing /\ led.duty = MaxDuty /\ led.fade_direction = 1
    /\ led.steps = MaxStep /\ MaxDuty % led.steps # 0

---------------------------------------------------------------------------
(* The Status Indicator Engine: src/drivers/StatusLED.py and the shared    *)
(* status code of src/main.py                                              *)

\* How many times the shared status code is changed.
MaxSets == 3

\* The fields of app:
\*   status_code   FloatPodController._status_code, the shared status code
\*   nset          how many times it has been changed from outside
\*   pc            where setup() is: "start" (not begun), "waitwifi" and
\*                 "waitntp" (the sleep_ms(100) of its two wait loops),
\*                 "done" (returned)
\*   watchdogs     the drivers whose watchdog task has been created
\*   wcancelled    those of them whose task has had cancel() called on it
AppStart ==
    [status_code |-> 0, nset |-> 0, pc |-> "start", watchdogs |-> {},
     wcancelled |-> {}]

\* FloatPodController.__init__, line 29.
AppInit == app = AppStart

\* The effect of each status code, with the first argument of blink and the
\* steps of breathe (0 where there is none).
StatusCodes ==
    [c \in 0..3 |->
        CASE c = 0 -> [effect |-> "off", flashes |-> 0, steps |-> 0]
          [] c = 1 -> [effect |-> "blink", flashes |-> 2, steps |-> 0]
          [] c = 2 -> [effect |-> "breathe", flashes |-> 0, steps |-> 4]
          [] c = 3 -> [effect |-> "blink", flashes |-> 3, steps |-> 0]]

\* utilities.type_coro, the type of a coroutine object.
type_coro == "coroutine"

\* The type of what calling the effect returns: breathe and blink are
\* async def, off is a plain method.
TypeOfResult(effect) ==
    IF effect \in {"breathe", "blink"} THEN "coroutine" ELSE "NoneType"

\* Task.cancel() on the effect task at place i.
CancelEffect(l, i) ==
    [l EXCEPT !.tasks[i].cancelled = TRUE,
              !.breathing = IF l.tasks[i].effect = "breathe" THEN FALSE ELSE @,
              !.steps = IF l.tasks[i].effect = "breathe" THEN 1 ELSE @]

StartEffectUntracked(l, d) ==
    LET l1 == IF d.effect = "off" THEN [l EXCEPT !.duty = 0] ELSE l
    IN  IF TypeOfResult(d.effect) = type_coro
        THEN [l1 EXCEPT !.tasks = Append(@, [effect |-> d.effect,
                                             flashes |-> d.flashes,
                                             cancelled |-> FALSE]),
                        !.breathing = (d.effect = "breathe"),
                        !.steps = IF d.effect = "breathe" THEN d.steps ELSE 1,
                        !.active = Append(@, d.effect)]
        ELSE [l1 EXCEPT !.active = Append(@, d.effect)]

\* set, lines 105-109: the effect is called; a coroutine becomes a task.
StartEffect(l, d) ==
    LET l1 == IF d.effect = "off" THEN [l EXCEPT !.duty = 0] ELSE l
    IN  IF TypeOfResult(d.effect) = type_coro
        THEN [l1 EXCEPT !.tasks = Append(@, [effect |-> d.effect,
                                             flashes |-> d.flashes,
                                             cancelled |-> FALSE]),
                        !.current_task = Len(l.tasks) + 1,
                        !.breathing = (d.effect = "breathe"),
                        !.steps = IF d.effect = "breathe" THEN d.steps ELSE 1,
                        !.active = Append(@, d.effect)]
        ELSE [l1 EXCEPT !.active = Append(@, d.effect)]

SetWithoutCancel(l, d) == StartEffect(l, d)

\* set, lines 89-109.
Set(l, d) ==
    StartEffect(IF l.current_task # 0
                THEN CancelEffect(l, l.current_task) ELSE l,
                d)

\* _check_status_code, lines 68-84: one pass of the loop, the shared status
\* code being code.
CheckStatusCode(l, code) ==
    IF l.status_code # code
    THEN Set([l EXCEPT !.status_code = code, !.observed = Append(@, code)],
             StatusCodes[code])
    ELSE l

\* The engine's task is resumed after its sleep_ms(100).
LPoll ==
    /\ led' = CheckStatusCode(led, app.status_code)
    /\ UNCHANGED <<tsvars, esvars, wifi, ntp, app>>

\* The shared status code is set to another value.
LSetStatus ==
    /\ app.nset < MaxSets
    /\ \E c \in DOMAIN StatusCodes :
          /\ c # app.status_code
          /\ app' = [app EXCEPT !.status_code = c, !.nset = @ + 1]
    /\ UNCHANGED <<tsvars, esvars, wifi, ntp, led>>

LEDNext == LPoll \/ LSetStatus

\* C24: every effect task but the newest has been sent a cancellation
\* request, so at most one is live, and a new one is started only with all
\* the earlier ones cancelled.
C24_OneLiveEffect ==
    /\ \A i \in 1..(Len(led.tasks) - 1) : led.tasks[i].cancelled
    /\ Cardinality({i \in DOMAIN led.tasks : ~led.tasks[i].cancelled}) <= 1

\* C24 witness: the engine has seen 0, 1, 0, 1 at consecutive polls; the
\* first blink task was cancelled when the code went back to 0.
C24_Witness ==
    /\ led.observed = <<0, 1, 0, 1>>
    /\ Len(led.tasks) = 2
    /\ led.tasks[1].cancelled /\ ~led.tasks[2].cancelled

---------------------------------------------------------------------------
(* The application: src/main.py, FloatPodController.setup                  *)

\* The `mode` of the WifiDriver: config.json's wifi.mode, "ap" when the
\* configuration has none (Wifi.py, line 21).
WifiModes == {"sta", "ap"}

\* setup, lines 77-162, up to the first sleep of the wait for the network:
\* the status code becomes 1, the Task Registry is loaded, and the
\* WifiDriver is constructed with its status code 0; in station mode, and
\* only then, it creates its watchdog with asyncio.create_task, lines 89-92
\* of Wifi.py.
SetupStart(a, mode) ==
    [a EXCEPT !.status_code = 1, !.pc = "waitwifi",
              !.watchdogs = IF mode = "sta" THEN @ \cup {"wifi"} ELSE @]

\* setup, lines 161-171: a pass of the wait for the network; when it is
\* over NTPTime creates its watchdog with asyncio.create_task, line 44 of
\* NTPTime.py, its status code being 0.
WaitWifi(a, w) ==
    IF w.status_code \notin {1, 2} THEN a
    ELSE [a EXCEPT !.pc = "waitntp", !.watchdogs = @ \cup {"ntp"}]

\* setup, lines 170-174: a pass of the wait for the time sync.
WaitNTP(a, n) ==
    IF n.status_code \notin {1, 2} THEN a
    ELSE [a EXCEPT !.status_code = 2, !.pc = "done"]

ASetupStart ==
    /\ app.pc = "start"
    /\ \E mode \in WifiModes : app' = SetupStart(app, mode)
    /\ UNCHANGED <<tsvars, esvars, drvvars>>

AWaitWifi ==
    /\ app.pc = "waitwifi"
    /\ app' = WaitWifi(app, wifi)
    /\ UNCHANGED <<tsvars, esvars, drvvars>>

AWaitNTP ==
    /\ app.pc = "waitntp"
    /\ app' = WaitNTP(app, ntp)
    /\ UNCHANGED <<tsvars, esvars, drvvars>>

\* A step of a watchdog that has been created and not cancelled.
AWifi == "wifi" \in app.watchdogs \ app.wcancelled /\ WifiNext

ANTP == "ntp" \in app.watchdogs \ app.wcancelled /\ NTPNext

AppNext ==
    \/ ASetupStart \/ AWaitWifi \/ AWaitNTP
    \/ AWifi \/ ANTP

\* The network watchdog task is scheduled: its sleep advances or it runs to
\* its next await.
AWifiRun == "wifi" \in app.watchdogs \ app.wcancelled /\ (WTick \/ WWake)

\* C33: under fair scheduling of setup and of the watchdog tasks, whatever
\* the WiFi mode, the interface and the time source do, the shared status
\* code eventually becomes 2; and whenever it is 2, the network watchdog's
\* and the time-sync watchdog's status codes, which never return to 0, are
\* both in {1, 2}.
C33_SetupTerminates ==
    /\ <>(app.status_code = 2)
    /\ [](app.status_code = 2
            => wifi.status_code \in {1, 2} /\ ntp.status_code \in {1, 2})

\* The start of setup, the network watchdog and the indicator's poll,
\* together with the Task Registry's bulk operations.
AppTasksNext ==
    \/ ASetupStart \/ AWaitWifi
    \/ AWifi \/ LPoll
    \/ CancelAll \/ DeleteAll

\* C28: once a driver has created its watchdog, the Task Registry holds a
\* handle of it, and after cancel_all or delete_all every watchdog created
\* has been sent a cancellation request.
C28_WatchdogsRegistered ==
    /\ app.watchdogs # {} => Referenced(taskstore) # {}
    /\ last.op \in {"cancel_all", "delete_all"}
       => app.watchdogs \subseteq app.wcancelled

\* C29: after setup has completed, a step in which the status code of the
\* network watchdog or of the time-sync watchdog changes changes the shared
\* status code as well.
C29_HealthReachesSharedCode ==
    [][(/\ app.pc = "done"
        /\ \/ wifi'.status_code # wifi.status_code
           \/ ntp'.status_code # ntp.status_code)
       => app'.status_code # app.status_code
      ]_vars

---------------------------------------------------------------------------
(* Specifications                                                          *)

Init == TSInit /\ ESInit /\ WifiInit /\ NTPInit /\ LEDInit /\ AppInit

Next == TSNext

\* The Task Registry under any sequence of calls.
Spec == Init /\ [][Next]_vars

\* The Event Registry under any sequence of calls.
SpecES == Init /\ [][ESNext]_vars

\* The Network watchdog under any behaviour of the link.
SpecWifi == Init /\ [][WifiNext]_vars

\* The Time-sync watchdog under any outcome of its attempts.
SpecNTP == Init /\ [][NTPNext]_vars

\* The breathe effect, its task being resumed as long as it runs.
SpecBreathe == Init /\ [][BreatheNext]_vars /\ WF_vars(BTick)

\* The Status Indicator Engine under any changes of the shared status code.
SpecLED == Init /\ [][LEDNext]_vars

\* The application from start-up on, with its drivers' watchdogs.
SpecApp == Init /\ [][AppNext]_vars

\* The same, every task being scheduled again and again: setup's loops and
\* the two watchdogs each take their next step when one is possible.
SpecAppFair ==
    /\ Init /\ [][AppNext]_vars
    /\ WF_vars(ASetupStart) /\ WF_vars(AWaitWifi) /\ WF_vars(AWaitNTP)
    /\ WF_vars(AWifiRun) /\ WF_vars(ANTP)

\* The tasks the application creates, and the Task Registry's bulk
\* operations.
SpecAppTasks == Init /\ [][AppTasksNext]_vars

===========================================================================
